---- MODULE Spec2Model ----
(***************************************************************************)
(* Work Permit System (src/ptw.py): a Streamlit script.  Every browser     *)
(* session owns a session_state (login flag, username, the cached table    *)
(* df_permits, the widget values) and all sessions share one backing file, *)
(* work_permits.csv.  Each action below is one run of the script, started  *)
(* by one user interaction, from its first line to its end (a st.rerun()   *)
(* included).                                                              *)
(*                                                                         *)
(* Time: datetime.now() is read from one wall clock shared by all          *)
(* sessions.  The clock counts ticks (the resolution of %f) and never goes *)
(* back.  A run that loads the table or stamps a Permit ID never reads the *)
(* tick an earlier run of its session read; runs of different sessions may *)
(* read the same tick (read_now holds the sessions that have read the      *)
(* current tick).  A decision stamps only the second: it reads the clock   *)
(* as it stands.                                                           *)
(***************************************************************************)
EXTENDS Integers, Sequences, FiniteSets, TLC

\* ------------------------------------------------------------------ bounds
\* Records one table may hold.
MaxPermits == 2
\* Last tick of the wall clock.
MaxClock == 2
\* Ticks per second: %f against %S in the two strftime formats.
TicksPerSec == 3

\* The browser sessions.
Sessions == {"s1", "s2"}

\* ------------------------------------------------------- configuration
DATA_FILE == "work_permits.csv"

WORK_TYPES == <<"", "High Pressure", "Hot Work", "Confined Space Entry",
                "Working at Height", "Electrical Work", "Excavation",
                "General Maintenance", "Other">>

OtherOption == "Other (Specify in Description)"

PRECAUTIONS_OPTIONS == <<"Specified tems", "Use Standard PPE",
                         "Lockout/Tagout Required", "Fire Watch Required",
                         "Atmospheric Testing Needed", "Ventilation Required",
                         "Buddy System Mandatory", "Fall Protection Required",
                         OtherOption>>

\* str(i) for i in range(1, 6)
LIKELIHOOD_OPTIONS == [i \in 1..5 |-> ToString(i)]
SEVERITY_OPTIONS == [i \in 1..5 |-> ToString(i)]

EXPECTED_COLUMNS == <<"Permit ID", "Requester", "Location", "Work Type",
                      "Description", "Likelihood", "Severity",
                      "Risk Assessment", "Precautions", "Issue Date",
                      "Status", "Supervisor Notes", "Supervisor Action Date">>

Range(seq) == {seq[i] : i \in DOMAIN seq}

Columns == Range(EXPECTED_COLUMNS)

\* ------------------------------------------------------------ the inputs
\* What the user can type or pick in the widgets.
UsernameInputs == {"user", "supervisor", "guest"}
PasswordInputs == {"123456", "wrong"}
\* A filled permit form: requester, location, work type, description, the
\* selected precautions and the text typed for the other precautions.
Form(requester, location, work_type, description, selected_precautions, other_text) ==
    [requester |-> requester, location |-> location, work_type |-> work_type,
     description |-> description,
     selected_precautions |-> selected_precautions, other_text |-> other_text]
FormInputs ==
    {Form("Ahmed", "Unit 3", "Hot Work", "Weld pipe", <<"Use Standard PPE">>, ""),
     Form("Ahmed", "Unit 3", "Hot Work", "Weld pipe", <<OtherOption>>, "gloves"),
     Form("", "Unit 3", "Hot Work", "Weld pipe", <<"Use Standard PPE">>, ""),
     Form("Ahmed", "", "Hot Work", "Weld pipe", <<"Use Standard PPE">>, ""),
     Form("Ahmed", "Unit 3", "", "Weld pipe", <<"Use Standard PPE">>, ""),
     Form("Ahmed", "Unit 3", "Hot Work", "", <<"Use Standard PPE">>, ""),
     Form("Ahmed", "Unit 3", "Hot Work", "Weld pipe", <<>>, ""),
     Form("Ahmed", "Unit 3", "Hot Work", "Weld pipe", <<>>, "gloves"),
     Form("Ahmed", "Unit 3", "Hot Work", "Weld pipe", <<OtherOption>>, ""),
     Form("Ahmed", "Unit 3", "Hot Work", "Weld pipe",
          <<"Use Standard PPE", OtherOption>>, ""),
     Form("", "", "", "", <<>>, "")}
\* The form two concurrent sessions submit.
SharedForms ==
    {Form("Ahmed", "Unit 3", "Hot Work", "Weld pipe", <<"Use Standard PPE">>, "")}
EmptyForm == Form("", "", "", "", <<>>, "")
NotesInputs == {"", "unsafe"}
\* The likelihood and the severity picked in the two selectboxes of Step 3.
RiskInputs == {<<"1", "1">>, <<"5", "3">>}
\* The texts the risk engine can be given: the texts of a stored record are
\* whatever the file holds.
RiskTexts == {"-1", "0", "1", "2", "3", "4", "5", "6", "", "abc", "3.0",
              " 3 ", "+2", "04"}
\* The scores the level can be asked for.
ScoreInputs == -2..27

\* ------------------------------------------------------------------ state
VARIABLES
    file,            \* work_permits.csv: [exists, rows]
    logged_in,       \* st.session_state.logged_in, per session
    username,        \* st.session_state.username
    df_permits,      \* st.session_state.df_permits
    app_mode,        \* the mode the run renders
    likelihood_new,  \* st.session_state.likelihood_new
    severity_new,    \* st.session_state.severity_new
    clock,           \* the wall clock, in ticks
    read_now,        \* the sessions whose last run read the current tick
    shown,           \* the last run: [session, message, id, form]
    risk_view        \* the last evaluation of the risk engine

vars == <<file, logged_in, username, df_permits, app_mode, likelihood_new,
          severity_new, clock, read_now, shown, risk_view>>

\* A key that is not in st.session_state.
Missing == "<not in session_state>"

ModeIssue == "Issue New Permit"
ModeReview == "Review Permits"
ModeView == "View All Permits"
Modes == {ModeIssue, ModeReview, ModeView}

\* ---------------------------------------------------------------- helpers
EmptyTable == <<>>

\* A load that leaves "nan" in the columns the file lacks.
Backfill_nan(row) == [c \in Columns |-> IF c \in DOMAIN row THEN row[c] ELSE "nan"]

\* Loading keeps the expected columns and fills the ones the file lacks.
Backfill(row) == [c \in Columns |-> IF c \in DOMAIN row THEN row[c] ELSE ""]

\* load_data(): f is the file, io_ok whether read_csv could read it.
load_data(f, io_ok) ==
    IF f.exists
    THEN IF io_ok
         THEN [i \in DOMAIN f.rows |-> Backfill(f.rows[i])]
         ELSE EmptyTable
    ELSE EmptyTable

\* A write that keeps the records of the file that the table does not hold.
save_data_merge(df, f, io_ok) ==
    IF io_ok
    THEN [exists |-> TRUE,
          rows |-> SelectSeq(f.rows,
                             LAMBDA r : \A i \in DOMAIN df :
                                           df[i]["Permit ID"] # r["Permit ID"])
                   \o df]
    ELSE f

\* save_data(df): the whole table replaces the file; a failed write is only
\* reported and leaves the file as it was.
save_data(df, f, io_ok) ==
    IF io_ok THEN [exists |-> TRUE, rows |-> df] ELSE f

\* datetime.now().strftime('%Y%m%d%H%M%S%f'): one text per tick.
StampTicks(t) == ToString(t)

\* datetime.now().strftime("%Y-%m-%d %H:%M:%S"): one text per second.
StampSeconds(t) == ToString(t \div TicksPerSec)

\* An id with the resolution of a second.
generate_permit_id_seconds(t) == "WP-" \o StampSeconds(t)

generate_permit_id(t) == "WP-" \o StampTicks(t)

\* int(x) of a text x: the number it spells, or a ValueError.  Besides the
\* plain decimal texts, int() reads a number with blanks around it, with a
\* plus sign or with leading zeros.
IntTexts == -1..9
IntSpellings == {<<" 3 ", 3>>, <<"+2", 2>>, <<"04", 4>>}
IsIntText(x) ==
    \/ \E n \in IntTexts : ToString(n) = x
    \/ \E p \in IntSpellings : p[1] = x
int(x) ==
    IF \E p \in IntSpellings : p[1] = x
    THEN (CHOOSE p \in IntSpellings : p[1] = x)[2]
    ELSE CHOOSE n \in IntTexts : ToString(n) = x

\* str(n)
str(n) == ToString(n)

\* Levels with the first boundary one score later.
get_risk_level_and_color_shifted(risk_score_int) ==
    IF risk_score_int \notin Int THEN <<"Invalid", "gray", 0>>
    ELSE IF 1 <= risk_score_int /\ risk_score_int <= 5 THEN <<"Low", "#28a745">>
    ELSE IF 6 <= risk_score_int /\ risk_score_int <= 12 THEN <<"Medium", "#ffc107">>
    ELSE IF 13 <= risk_score_int /\ risk_score_int <= 25 THEN <<"High", "#dc3545">>
    ELSE <<IF risk_score_int # 0 THEN "Undefined" ELSE "N/A", "gray">>

get_risk_level_and_color(risk_score_int) ==
    IF risk_score_int \notin Int THEN <<"Invalid", "gray", 0>>
    ELSE IF 1 <= risk_score_int /\ risk_score_int <= 4 THEN <<"Low", "#28a745">>
    ELSE IF 5 <= risk_score_int /\ risk_score_int <= 12 THEN <<"Medium", "#ffc107">>
    ELSE IF 13 <= risk_score_int /\ risk_score_int <= 25 THEN <<"High", "#dc3545">>
    ELSE <<IF risk_score_int # 0 THEN "Undefined" ELSE "N/A", "gray">>

\* A score that does not look at the range of the factors.
risk_score_unchecked(likelihood_str, severity_str) ==
    IF IsIntText(likelihood_str) /\ IsIntText(severity_str)
    THEN int(likelihood_str) * int(severity_str)
    ELSE 0

\* A score that adds the two factors.
risk_score_sum(likelihood_str, severity_str) ==
    IF IsIntText(likelihood_str) /\ IsIntText(severity_str)
    THEN LET l == int(likelihood_str)
             s == int(severity_str)
         IN  IF 1 <= l /\ l <= 5 /\ 1 <= s /\ s <= 5 THEN l + s ELSE 0
    ELSE 0

risk_score(likelihood_str, severity_str) ==
    IF IsIntText(likelihood_str) /\ IsIntText(severity_str)
    THEN LET l == int(likelihood_str)
             s == int(severity_str)
         IN  IF 1 <= l /\ l <= 5 /\ 1 <= s /\ s <= 5 THEN l * s ELSE 0
    ELSE 0

calculate_risk_assessment_details(likelihood_str, severity_str) ==
    LET risk_score_int == risk_score(likelihood_str, severity_str)
        level_color == get_risk_level_and_color(risk_score_int)
    IN  <<risk_score_int, level_color[1], level_color[2]>>

\* ", ".join(list)
RECURSIVE Join(_)
Join(list) ==
    IF list = <<>> THEN ""
    ELSE IF Len(list) = 1 THEN list[1]
    ELSE list[1] \o ", " \o Join(Tail(list))

\* The ticks a run of session s can read from the wall clock now.
Now(s) ==
    {t \in {clock, clock + 1} : (t = clock => s \notin read_now) /\ t <= MaxClock}

\* The sessions that have read tick t, once session s has.
ReadAt(s, t) == IF t = clock THEN read_now \cup {s} ELSE {s}

\* What a run leaves on the page: the session, the st.success, st.warning or
\* st.error message, the Permit ID it is about and the form it was given.
Show(s, m, i, f) == [session |-> s, message |-> m, id |-> i, form |-> f]
NoShow == Show("", "", "", EmptyForm)

\* An evaluation of the risk engine: the function called, what it was given
\* (two texts, or a score) and what it returned.
RiskView(call, l, s, score, result) ==
    [call |-> call, likelihood |-> l, severity |-> s, score |-> score,
     result |-> result]
NoRisk == RiskView("", "", "", 0, <<>>)

MsgInvalidLogin == "Invalid username or password"
MsgLoadError == "Error loading data"
MsgSubmitted == "submitted successfully"
MsgApproved == "Approved."
MsgRejected == "Rejected."
MsgNotesRequired == "Supervisor notes are required for rejection."

\* ------------------------------------------------------------------ Init
Init ==
    /\ file = [exists |-> FALSE, rows |-> EmptyTable]
    /\ logged_in = [s \in Sessions |-> FALSE]
    /\ username = [s \in Sessions |-> Missing]
    /\ df_permits = [s \in Sessions |-> EmptyTable]
    /\ app_mode = [s \in Sessions |-> Missing]
    /\ likelihood_new = [s \in Sessions |-> Missing]
    /\ severity_new = [s \in Sessions |-> Missing]
    /\ clock = 0
    /\ read_now = {}
    /\ shown = NoShow
    /\ risk_view = NoRisk

\* ----------------------------------------------------------------- login
credentials_ok(u, p) == u \in {"user", "supervisor"} /\ p = "123456"

\* The login form is submitted.  On success the script reruns: the session
\* holds no table yet, so the table is loaded, and the rerun renders the
\* "Issue New Permit" page with the two risk selectors at their defaults.
Login(s, u, p, io_ok) ==
    /\ ~logged_in[s]
    /\ IF credentials_ok(u, p)
       THEN /\ logged_in' = [logged_in EXCEPT ![s] = TRUE]
            /\ username' = [username EXCEPT ![s] = u]
            /\ df_permits' = [df_permits EXCEPT ![s] = load_data(file, io_ok)]
            /\ app_mode' = [app_mode EXCEPT ![s] = ModeIssue]
            /\ likelihood_new' = [likelihood_new EXCEPT ![s] = "1"]
            /\ severity_new' = [severity_new EXCEPT ![s] = "1"]
            /\ read_now' = read_now \cup {s}
            /\ shown' = Show(s, IF file.exists /\ ~io_ok
                                THEN MsgLoadError ELSE "", "", EmptyForm)
       ELSE /\ shown' = Show(s, MsgInvalidLogin, "", EmptyForm)
            /\ UNCHANGED <<logged_in, username, df_permits, app_mode,
                           likelihood_new, severity_new, read_now>>
    /\ UNCHANGED <<file, clock, risk_view>>

\* A logout that leaves the table in the session.
Logout_keeping_table(s) ==
    /\ logged_in[s]
    /\ logged_in' = [logged_in EXCEPT ![s] = FALSE]
    /\ username' = [username EXCEPT ![s] = Missing]
    /\ app_mode' = [app_mode EXCEPT ![s] = Missing]
    /\ likelihood_new' = [likelihood_new EXCEPT ![s] = Missing]
    /\ severity_new' = [severity_new EXCEPT ![s] = Missing]
    /\ shown' = NoShow
    /\ UNCHANGED <<file, df_permits, clock, read_now, risk_view>>

\* The Logout button: st.session_state.clear(), then the login page.
Logout(s) ==
    /\ logged_in[s]
    /\ logged_in' = [logged_in EXCEPT ![s] = FALSE]
    /\ username' = [username EXCEPT ![s] = Missing]
    /\ df_permits' = [df_permits EXCEPT ![s] = EmptyTable]
    /\ app_mode' = [app_mode EXCEPT ![s] = Missing]
    /\ likelihood_new' = [likelihood_new EXCEPT ![s] = Missing]
    /\ severity_new' = [severity_new EXCEPT ![s] = Missing]
    /\ shown' = NoShow
    /\ UNCHANGED <<file, clock, read_now, risk_view>>

\* ------------------------------------------------------------ navigation
\* A mode selectbox offered to every role.
SelectMode_any_role(s, m) ==
    /\ logged_in[s]
    /\ m # app_mode[s]
    /\ app_mode' = [app_mode EXCEPT ![s] = m]
    /\ likelihood_new' = [likelihood_new EXCEPT ![s] =
                              IF m = ModeIssue THEN "1" ELSE Missing]
    /\ severity_new' = [severity_new EXCEPT ![s] =
                              IF m = ModeIssue THEN "1" ELSE Missing]
    /\ shown' = NoShow
    /\ UNCHANGED <<file, logged_in, username, df_permits, clock, read_now,
                   risk_view>>

\* The supervisor's "Choose Mode" selectbox; a regular user has no choice.
\* The risk selectors exist only on the "Issue New Permit" page: their values
\* leave the session state with the page and come back as the defaults.
SelectMode(s, m) ==
    /\ logged_in[s]
    /\ username[s] = "supervisor"
    /\ m # app_mode[s]
    /\ app_mode' = [app_mode EXCEPT ![s] = m]
    /\ likelihood_new' = [likelihood_new EXCEPT ![s] =
                              IF m = ModeIssue THEN "1" ELSE Missing]
    /\ severity_new' = [severity_new EXCEPT ![s] =
                              IF m = ModeIssue THEN "1" ELSE Missing]
    /\ shown' = NoShow
    /\ UNCHANGED <<file, logged_in, username, df_permits, clock, read_now,
                   risk_view>>

\* The two selectboxes of Step 3, outside the form.
SelectRisk(s, l, v) ==
    /\ logged_in[s]
    /\ app_mode[s] = ModeIssue
    /\ <<l, v>> # <<likelihood_new[s], severity_new[s]>>
    /\ likelihood_new' = [likelihood_new EXCEPT ![s] = l]
    /\ severity_new' = [severity_new EXCEPT ![s] = v]
    /\ shown' = NoShow
    /\ UNCHANGED <<file, logged_in, username, df_permits, app_mode, clock,
                   read_now, risk_view>>

\* ------------------------------------------------------------ risk engine
\* "Step 4: View Calculated Risk" and the risk line of the review page: the
\* engine is evaluated on two texts.
Calculate(l, s) ==
    /\ risk_view' = RiskView("calculate_risk_assessment_details", l, s, 0,
                             calculate_risk_assessment_details(l, s))
    /\ UNCHANGED <<file, logged_in, username, df_permits, app_mode,
                   likelihood_new, severity_new, clock, read_now, shown>>

\* A cell of the risk matrix: the level and the color of a score.
Classify(score) ==
    /\ risk_view' = RiskView("get_risk_level_and_color", "", "", score,
                             get_risk_level_and_color(score))
    /\ UNCHANGED <<file, logged_in, username, df_permits, app_mode,
                   likelihood_new, severity_new, clock, read_now, shown>>

\* ------------------------------------------------------- Issue New Permit
\* The text input for the other precautions exists only when "Other" is
\* selected.
other_details(selected_precautions, other_text) ==
    IF OtherOption \in Range(selected_precautions) THEN other_text ELSE ""

RECURSIVE final_precautions(_, _)
final_precautions(selected_precautions, other_precautions_details) ==
    IF selected_precautions = <<>> THEN <<>>
    ELSE LET p_item == Head(selected_precautions)
             rest == final_precautions(Tail(selected_precautions),
                                       other_precautions_details)
         IN  IF p_item = OtherOption
             THEN IF other_precautions_details # ""
                  THEN <<"Other: " \o other_precautions_details>> \o rest
                  ELSE rest
             ELSE <<p_item>> \o rest

\* A validation that asks for the other details whatever is selected.
error_messages_strict(requester, location, work_type, description, selected_precautions, other_precautions_details) ==
    (IF requester = "" THEN <<"Requester Name is required.">> ELSE <<>>)
    \o (IF location = "" THEN <<"Work Location is required.">> ELSE <<>>)
    \o (IF work_type = "" THEN <<"Work Type must be selected.">> ELSE <<>>)
    \o (IF description = "" THEN <<"Work Description is required.">> ELSE <<>>)
    \o (IF other_precautions_details = ""
        THEN <<"If 'Other' precaution is selected, please specify the details.">>
        ELSE <<>>)
    \o (IF selected_precautions = <<>>
        THEN <<"At least one precaution must be selected, or 'Other' specified.">>
        ELSE <<>>)

\* A validation that does not look at the requester.
error_messages_lenient(requester, location, work_type, description, selected_precautions, other_precautions_details) ==
    (IF location = "" THEN <<"Work Location is required.">> ELSE <<>>)
    \o (IF work_type = "" THEN <<"Work Type must be selected.">> ELSE <<>>)
    \o (IF description = "" THEN <<"Work Description is required.">> ELSE <<>>)
    \o (IF OtherOption \in Range(selected_precautions)
           /\ other_precautions_details = ""
        THEN <<"If 'Other' precaution is selected, please specify the details.">>
        ELSE <<>>)
    \o (IF selected_precautions = <<>>
        THEN <<"At least one precaution must be selected, or 'Other' specified.">>
        ELSE <<>>)

\* The messages collected by the validation of a submitted form.
error_messages(requester, location, work_type, description, selected_precautions, other_precautions_details) ==
    LET final_precautions_list ==
            final_precautions(selected_precautions, other_precautions_details)
        other_selected == OtherOption \in Range(selected_precautions)
    IN  (IF requester = "" THEN <<"Requester Name is required.">> ELSE <<>>)
        \o (IF location = "" THEN <<"Work Location is required.">> ELSE <<>>)
        \o (IF work_type = "" THEN <<"Work Type must be selected.">> ELSE <<>>)
        \o (IF description = "" THEN <<"Work Description is required.">> ELSE <<>>)
        \o (IF other_selected /\ other_precautions_details = ""
            THEN <<"If 'Other' precaution is selected, please specify the details.">>
            ELSE <<>>)
        \o (IF /\ final_precautions_list = <<>>
               /\ ~(other_selected /\ other_precautions_details # "")
               /\ selected_precautions = <<>>
            THEN <<"At least one precaution must be selected, or 'Other' specified.">>
            ELSE <<>>)

precautions_to_save(final_precautions_list) ==
    IF final_precautions_list # <<>> THEN Join(final_precautions_list)
    ELSE "None specified"

new_permit_data(permit_id, requester, location, work_type, description, likelihood, severity, precautions, issue_date) ==
    ("Permit ID" :> permit_id)
    @@ ("Requester" :> requester)
    @@ ("Location" :> location)
    @@ ("Work Type" :> work_type)
    @@ ("Description" :> description)
    @@ ("Likelihood" :> likelihood)
    @@ ("Severity" :> severity)
    @@ ("Risk Assessment" :>
            str(calculate_risk_assessment_details(likelihood, severity)[1]))
    @@ ("Precautions" :> precautions)
    @@ ("Issue Date" :> issue_date)
    @@ ("Status" :> "Pending")
    @@ ("Supervisor Notes" :> "")
    @@ ("Supervisor Action Date" :> "")

\* Submit with the new record put before the records of the table.
Submit_prepending(s, form, io_ok) ==
    LET other_precautions_details ==
            other_details(form.selected_precautions, form.other_text)
        errors == error_messages(form.requester, form.location, form.work_type,
                                 form.description, form.selected_precautions,
                                 other_precautions_details)
    IN  /\ logged_in[s]
        /\ app_mode[s] = ModeIssue
        /\ Len(df_permits[s]) < MaxPermits
        /\ IF errors # <<>>
           THEN /\ shown' = Show(s, errors[1], "", form)
                /\ UNCHANGED <<file, df_permits, likelihood_new, severity_new,
                               clock, read_now>>
           ELSE \E t \in Now(s) :
                  LET permit_id == generate_permit_id(t)
                      row == new_permit_data(
                                 permit_id, form.requester, form.location,
                                 form.work_type, form.description,
                                 likelihood_new[s], severity_new[s],
                                 precautions_to_save(final_precautions(
                                     form.selected_precautions,
                                     other_precautions_details)),
                                 StampSeconds(t))
                      df == <<row>> \o df_permits[s]
                  IN  /\ df_permits' = [df_permits EXCEPT ![s] = df]
                      /\ file' = save_data(df, file, io_ok)
                      /\ shown' = Show(s, MsgSubmitted, permit_id, form)
                      /\ likelihood_new' = [likelihood_new EXCEPT ![s] = "1"]
                      /\ severity_new' = [severity_new EXCEPT ![s] = "1"]
                      /\ clock' = t
                      /\ read_now' = ReadAt(s, t)
        /\ UNCHANGED <<logged_in, username, app_mode, risk_view>>

\* "Submit Permit Request".
Submit(s, form, io_ok) ==
    LET requester == form.requester
        location == form.location
        work_type == form.work_type
        description == form.description
        selected_precautions == form.selected_precautions
        other_precautions_details ==
            other_details(selected_precautions, form.other_text)
        errors == error_messages(requester, location, work_type, description,
                                 selected_precautions, other_precautions_details)
    IN  /\ logged_in[s]
        /\ app_mode[s] = ModeIssue
        /\ Len(df_permits[s]) < MaxPermits
        /\ IF errors # <<>>
           THEN /\ shown' = Show(s, errors[1], "", form)
                /\ UNCHANGED <<file, df_permits, likelihood_new, severity_new,
                               clock, read_now>>
           ELSE \E t \in Now(s) :
                  LET permit_id == generate_permit_id(t)
                      row == new_permit_data(
                                 permit_id, requester, location, work_type,
                                 description, likelihood_new[s], severity_new[s],
                                 precautions_to_save(final_precautions(
                                     selected_precautions,
                                     other_precautions_details)),
                                 StampSeconds(t))
                      df == Append(df_permits[s], row)
                  IN  /\ df_permits' = [df_permits EXCEPT ![s] = df]
                      /\ file' = save_data(df, file, io_ok)
                      /\ shown' = Show(s, MsgSubmitted, permit_id, form)
                      /\ likelihood_new' = [likelihood_new EXCEPT ![s] = "1"]
                      /\ severity_new' = [severity_new EXCEPT ![s] = "1"]
                      /\ clock' = t
                      /\ read_now' = ReadAt(s, t)
        /\ UNCHANGED <<logged_in, username, app_mode, risk_view>>

\* ---------------------------------------------------------- Review Permits
IsPending(row) == row["Status"] = "Pending"

\* The Pending rows, the last one first.
pending_df_reversed(df) ==
    LET pending == SelectSeq(df, IsPending)
    IN  [i \in DOMAIN pending |-> pending[Len(pending) + 1 - i]]

\* pending_df: the Pending rows of the session's table, in table order.
pending_df(df) == SelectSeq(df, IsPending)

\* Options that offer every permit, whatever its Status.
permit_ids_list_all(df) == [i \in DOMAIN df |-> df[i]["Permit ID"]]

\* The options of "Select a Permit to Review".
permit_ids_list(df) ==
    LET pending == pending_df(df)
    IN  [i \in DOMAIN pending |-> pending[i]["Permit ID"]]

\* What the review page offers: the info line when nothing is pending,
\* otherwise the options of the selectbox.
MsgNoPending == "No pending permits to review."
review_page(df) ==
    IF df = <<>> \/ pending_df(df) = <<>>
    THEN [info |-> MsgNoPending, options |-> <<>>]
    ELSE [info |-> "", options |-> permit_ids_list(df)]

\* df[df["Permit ID"] == selected_permit_id].index[0]
permit_index(df, selected_permit_id) ==
    CHOOSE i \in DOMAIN df :
        /\ df[i]["Permit ID"] = selected_permit_id
        /\ \A j \in 1..(i - 1) : df[j]["Permit ID"] # selected_permit_id

\* Notes kept as they were typed.
approved_notes_raw(supervisor_notes) == supervisor_notes

approved_notes(supervisor_notes) ==
    IF supervisor_notes # "" THEN supervisor_notes ELSE "Approved without notes."

\* An approval that also writes the notes into the Description.
approve_permit_editing(df, index, supervisor_notes, action_date) ==
    [df EXCEPT ![index] =
        [@ EXCEPT !["Status"] = "Approved",
                  !["Description"] = supervisor_notes,
                  !["Supervisor Notes"] = approved_notes(supervisor_notes),
                  !["Supervisor Action Date"] = action_date]]

\* An approval that leaves the action date alone.
approve_permit_undated(df, index, supervisor_notes, action_date) ==
    [df EXCEPT ![index] =
        [@ EXCEPT !["Status"] = "Approved",
                  !["Supervisor Notes"] = approved_notes(supervisor_notes)]]

\* The three .loc assignments of the approve branch.
approve_permit(df, index, supervisor_notes, action_date) ==
    [df EXCEPT ![index] =
        [@ EXCEPT !["Status"] = "Approved",
                  !["Supervisor Notes"] = approved_notes(supervisor_notes),
                  !["Supervisor Action Date"] = action_date]]

\* A reject branch that acts on any notes.
reject_allowed_always(supervisor_notes) == TRUE

\* The reject branch acts only on notes that are not empty.
reject_allowed(supervisor_notes) == supervisor_notes # ""

\* A rejection that keeps the notes the record had.
reject_permit_unnoted(df, index, supervisor_notes, action_date) ==
    [df EXCEPT ![index] =
        [@ EXCEPT !["Status"] = "Rejected",
                  !["Supervisor Action Date"] = action_date]]

\* The three .loc assignments of the reject branch.
reject_permit(df, index, supervisor_notes, action_date) ==
    [df EXCEPT ![index] =
        [@ EXCEPT !["Status"] = "Rejected",
                  !["Supervisor Notes"] = supervisor_notes,
                  !["Supervisor Action Date"] = action_date]]

\* "Approve Permit" on the review form of the selected permit.
Approve(s, selected_permit_id, supervisor_notes, io_ok) ==
    /\ logged_in[s]
    /\ app_mode[s] = ModeReview
    /\ selected_permit_id \in Range(permit_ids_list(df_permits[s]))
    /\ LET index == permit_index(df_permits[s], selected_permit_id)
           df == approve_permit(df_permits[s], index, supervisor_notes,
                                StampSeconds(clock))
       IN  /\ df_permits' = [df_permits EXCEPT ![s] = df]
           /\ file' = save_data(df, file, io_ok)
           /\ shown' = Show(s, MsgApproved, selected_permit_id,
                            [EmptyForm EXCEPT !.other_text = supervisor_notes])
    /\ UNCHANGED <<logged_in, username, app_mode, likelihood_new, severity_new,
                   clock, read_now, risk_view>>

\* "Reject Permit" on the review form of the selected permit.
Reject(s, selected_permit_id, supervisor_notes, io_ok) ==
    /\ logged_in[s]
    /\ app_mode[s] = ModeReview
    /\ selected_permit_id \in Range(permit_ids_list(df_permits[s]))
    /\ IF reject_allowed(supervisor_notes)
       THEN LET index == permit_index(df_permits[s], selected_permit_id)
                df == reject_permit(df_permits[s], index, supervisor_notes,
                                    StampSeconds(clock))
            IN  /\ df_permits' = [df_permits EXCEPT ![s] = df]
                /\ file' = save_data(df, file, io_ok)
                /\ shown' = Show(s, MsgRejected, selected_permit_id,
                                 [EmptyForm EXCEPT
                                     !.other_text = supervisor_notes])
       ELSE /\ shown' = Show(s, MsgNotesRequired, selected_permit_id,
                             EmptyForm)
            /\ UNCHANGED <<file, df_permits>>
    /\ UNCHANGED <<logged_in, username, app_mode, likelihood_new, severity_new,
                   clock, read_now, risk_view>>

\* ------------------------------------------------------------ the system
\* The ticks, before the clock of the model starts, at which the records of
\* a file found at the first login were submitted.
LegacyTicks == {-2, -1}

\* The Permit IDs a session can ever see.
PermitIds == {generate_permit_id(t) : t \in LegacyTicks \cup 0..MaxClock}

\* One run of the script in session s: the forms come from `forms`, the
\* pages a supervisor visits from `modes`, and `ios` says how reading and
\* writing the file can end (TRUE: it works).
Run(s, forms, modes, ios) ==
    \/ \E u \in UsernameInputs, p \in PasswordInputs, io_ok \in ios :
         Login(s, u, p, io_ok)
    \/ Logout(s)
    \/ \E m \in modes : SelectMode(s, m)
    \/ \E form \in forms, io_ok \in ios : Submit(s, form, io_ok)
    \/ \E id \in PermitIds, notes \in NotesInputs, io_ok \in ios :
         Approve(s, id, notes, io_ok)
    \/ \E id \in PermitIds, notes \in NotesInputs, io_ok \in ios :
         Reject(s, id, notes, io_ok)

\* Two concurrent sessions on one file, on storage that works; the risk
\* selectors stay at their defaults and a supervisor moves between the two
\* pages that write.
Next == \E s \in Sessions : Run(s, SharedForms, {ModeIssue, ModeReview}, {TRUE})

Spec == Init /\ [][Next]_vars

\* One session is the only writer of the file, on storage that works; every
\* form and the risk selectors are in use.
NextSolo ==
    \/ Run("s1", FormInputs, Modes, {TRUE})
    \/ \E lv \in RiskInputs : SelectRisk("s1", lv[1], lv[2])

SpecSolo == Init /\ [][NextSolo]_vars

\* One session is the only writer of the file; reading and writing the file
\* can fail.
NextFaulty == Run("s1", SharedForms, Modes, BOOLEAN)

SpecFaulty == Init /\ [][NextFaulty]_vars

\* A record as a file written by an earlier revision, or edited by hand,
\* holds it: with the columns `columns` only.
LegacyRow(permit_id, status, columns) ==
    LET row == new_permit_data(permit_id, "Ali", "Unit 1", "Electrical Work",
                               "Replace fuse", "2", "3", "Buddy System Mandatory",
                               "0")
            @@ ("Approver" :> "chief")
    IN  [c \in columns |-> IF c = "Status" THEN status ELSE row[c]]

\* The columns of a file without the risk columns; without the supervisor
\* columns; with a column the system does not know.
LegacyColumns ==
    {Columns,
     Columns \ {"Likelihood", "Severity", "Risk Assessment"},
     Columns \ {"Supervisor Notes", "Supervisor Action Date"},
     {"Permit ID", "Requester", "Status", "Approver"}}

\* The files a first login can find: none, one without records (empty, or
\* with the header only), and files of one or two records.
LegacyFiles ==
    {[exists |-> FALSE, rows |-> <<>>], [exists |-> TRUE, rows |-> <<>>]}
    \cup {[exists |-> TRUE,
           rows |-> <<LegacyRow(generate_permit_id(-1), "Pending", columns)>>] :
             columns \in LegacyColumns}
    \cup {[exists |-> TRUE,
           rows |-> <<LegacyRow(generate_permit_id(-2), "Approved", columns),
                      LegacyRow(generate_permit_id(-1), "Pending", columns)>>] :
             columns \in LegacyColumns}

InitLoad ==
    /\ file \in LegacyFiles
    /\ logged_in = [s \in Sessions |-> FALSE]
    /\ username = [s \in Sessions |-> Missing]
    /\ df_permits = [s \in Sessions |-> EmptyTable]
    /\ app_mode = [s \in Sessions |-> Missing]
    /\ likelihood_new = [s \in Sessions |-> Missing]
    /\ severity_new = [s \in Sessions |-> Missing]
    /\ clock = 0
    /\ read_now = {}
    /\ shown = NoShow
    /\ risk_view = NoRisk

\* One session on a file it did not write; reading and writing can fail.
NextLoad == Run("s1", SharedForms, Modes, BOOLEAN)

SpecLoad == InitLoad /\ [][NextLoad]_vars

\* The risk engine alone, on every pair of texts and on every score.
NextRisk ==
    \/ \E l \in RiskTexts, s \in RiskTexts : Calculate(l, s)
    \/ \E score \in ScoreInputs : Classify(score)

SpecRisk == Init /\ [][NextRisk]_vars

\* ------------------------------------------------------------ vocabulary
\* Every table of the system: each session's and the persisted one.
Tables == {df_permits[s] : s \in Sessions} \cup {file.rows}

AllRows == UNION {Range(table) : table \in Tables}

IdsOf(table) == {table[i]["Permit ID"] : i \in DOMAIN table}

RowOf(table, id) == CHOOSE row \in Range(table) : row["Permit ID"] = id

SubmitWarnings ==
    {"Requester Name is required.", "Work Location is required.",
     "Work Type must be selected.", "Work Description is required.",
     "If 'Other' precaution is selected, please specify the details.",
     "At least one precaution must be selected, or 'Other' specified."}

\* The last run was a submission, a decision.
WasSubmit(sh) == sh.message \in SubmitWarnings \cup {MsgSubmitted}
WasDecision(sh) == sh.message \in {MsgApproved, MsgRejected}

\* The notes a decision was given.
NotesGiven(sh) == sh.form.other_text

\* ---------------------------------------------------------------- C1
\* Between two tables, a Status changes only from Pending, to Approved or to
\* Rejected.
StatusStepsOnce(old, new) ==
    \A r \in Range(old), q \in Range(new) :
        (r["Permit ID"] = q["Permit ID"] /\ q["Status"] # r["Status"])
            => (r["Status"] = "Pending" /\ q["Status"] \in {"Approved", "Rejected"})

\* A record that enters a table enters it Pending.
CreatedPending(old, new) ==
    \A q \in Range(new) :
        q["Permit ID"] \notin IdsOf(old) => q["Status"] = "Pending"

C1_Step ==
    /\ StatusStepsOnce(file.rows, file'.rows)
    /\ \A s \in Sessions :
         (logged_in[s] /\ logged_in'[s])
            => /\ StatusStepsOnce(df_permits[s], df_permits'[s])
               /\ CreatedPending(df_permits[s], df_permits'[s])

\* C1: with one session as the only writer, a record is Pending when it is
\* created and its Status changes at most once, from Pending to Approved or
\* to Rejected, in the session's table (from login to logout) and in the
\* persisted table; a decided record keeps its Status.
C1_StatusChangesAtMostOnce == [][C1_Step]_vars

\* A decided record is still in the table when the next permit is submitted.
C1_Witness ==
    /\ shown.message = MsgSubmitted
    /\ Len(df_permits["s1"]) = 2
    /\ df_permits["s1"][1]["Status"] \in {"Approved", "Rejected"}
    /\ file.rows = df_permits["s1"]

\* ---------------------------------------------------------------- C2
\* The run was an attempt to decide: it approved, rejected or asked for notes.
WasDecisionAttempt(sh) ==
    sh.message \in {MsgApproved, MsgRejected, MsgNotesRequired}

\* An attempt on a permit that the persisted table holds as decided does not
\* succeed and leaves the decision recorded there as it was.
C2_Step ==
    \A r \in Range(file.rows) :
        (/\ WasDecisionAttempt(shown')
         /\ r["Permit ID"] = shown'.id
         /\ r["Status"] # "Pending")
           => /\ ~WasDecision(shown')
              /\ \A q \in Range(file'.rows) :
                    q["Permit ID"] = r["Permit ID"]
                       => /\ q["Status"] = r["Status"]
                          /\ q["Supervisor Notes"] = r["Supervisor Notes"]
                          /\ q["Supervisor Action Date"] =
                                r["Supervisor Action Date"]

\* C2: a decision attempted by any session on a permit whose Status in the
\* persisted table is already Approved or Rejected fails and leaves the
\* Status, the Supervisor Notes and the Supervisor Action Date of that record
\* in the persisted table as they were: a second decision never overwrites
\* the first.
C2_SecondDecisionFails == [][C2_Step]_vars

\* ---------------------------------------------------------------- C3
\* C3: in every table, the session's and the persisted one, every Rejected
\* record has Supervisor Notes that are not empty.
C3_RejectedHasNotes ==
    \A row \in AllRows :
        row["Status"] = "Rejected" => row["Supervisor Notes"] # ""

C3_Witness ==
    /\ shown.message = MsgRejected
    /\ \E row \in Range(file.rows) :
          row["Permit ID"] = shown.id /\ row["Status"] = "Rejected"

\* ---------------------------------------------------------------- C4
C4_Step ==
    /\ shown'.message = MsgNotesRequired
          => /\ UNCHANGED <<df_permits, file>>
             /\ LET row == RowOf(df_permits'[shown'.session], shown'.id)
                IN  /\ row["Status"] = "Pending"
                    /\ row["Supervisor Notes"] = ""
                    /\ row["Supervisor Action Date"] = ""
             /\ shown'.id \in Range(permit_ids_list(df_permits'[shown'.session]))
             /\ app_mode'[shown'.session] = ModeReview
    /\ shown'.message = MsgRejected
          => LET row == RowOf(df_permits'[shown'.session], shown'.id)
             IN  /\ NotesGiven(shown') # ""
                 /\ row["Status"] = "Rejected"
                 /\ row["Supervisor Notes"] = NotesGiven(shown')
                 /\ row["Supervisor Action Date"] # ""

\* C4: a rejection with empty notes shows the validation message and changes
\* neither the session's table nor the persisted table: the record stays
\* Pending with empty notes and date and is still offered for a decision; a
\* rejection with notes n sets Status Rejected, Supervisor Notes n and a
\* Supervisor Action Date that is not empty.
C4_RejectNeedsNotes == [][C4_Step]_vars

C4_Witness ==
    /\ shown.message = MsgNotesRequired
    /\ shown.id \in Range(permit_ids_list(df_permits[shown.session]))
    /\ file.exists /\ file.rows = df_permits[shown.session]

\* ---------------------------------------------------------------- C5
\* Whatever the notes, the permit a supervisor has selected for review can be
\* approved.
C5_CanApprove ==
    \A s \in Sessions, notes \in NotesInputs :
        (logged_in[s] /\ app_mode[s] = ModeReview)
           => \A i \in DOMAIN permit_ids_list(df_permits[s]) :
                 ENABLED (/\ Approve(s, permit_ids_list(df_permits[s])[i],
                                     notes, TRUE)
                          /\ shown'.message = MsgApproved)

C5_Step ==
    shown'.message = MsgApproved
       => LET row == RowOf(df_permits'[shown'.session], shown'.id)
          IN  /\ row["Status"] = "Approved"
              /\ row["Supervisor Notes"] =
                    IF NotesGiven(shown') = "" THEN "Approved without notes."
                    ELSE NotesGiven(shown')

C5_ApprovedHasNotes ==
    \A row \in AllRows :
        row["Status"] = "Approved" => row["Supervisor Notes"] # ""

\* C5: approving a pending permit succeeds whatever the notes; with empty
\* notes the Supervisor Notes become "Approved without notes.", otherwise
\* exactly the notes given, so every Approved record has notes that are not
\* empty.
C5_ApproveAlwaysSucceeds ==
    /\ []C5_CanApprove
    /\ [][C5_Step]_vars
    /\ []C5_ApprovedHasNotes

C5_Witness ==
    /\ shown.message = MsgApproved
    /\ NotesGiven(shown) = ""
    /\ shown.id \in IdsOf(file.rows)
    /\ RowOf(file.rows, shown.id)["Supervisor Notes"] = "Approved without notes."

\* ---------------------------------------------------------------- C6
\* C6: in every table, a record has a Supervisor Action Date exactly when its
\* Status is not Pending.
C6_DateIffDecided ==
    \A row \in AllRows :
        (row["Supervisor Action Date"] # "") <=> (row["Status"] # "Pending")

C6_Witness ==
    \E s \in Sessions :
        /\ Len(df_permits[s]) = 2
        /\ df_permits[s][1]["Status"] = "Pending"
        /\ df_permits[s][2]["Status"] = "Approved"
        /\ file.rows = df_permits[s]

\* ---------------------------------------------------------------- C7
UniqueIds(table) ==
    \A i, j \in DOMAIN table :
        i # j => table[i]["Permit ID"] # table[j]["Permit ID"]

C7_Unique == \A table \in Tables : UniqueIds(table)

C7_Step ==
    /\ shown'.message = MsgSubmitted
          => shown'.id \notin IdsOf(df_permits[shown'.session])
    /\ \A s \in Sessions :
         (logged_in[s] /\ logged_in'[s])
            => \A i \in DOMAIN df_permits[s] :
                  /\ i \in DOMAIN df_permits'[s]
                  /\ df_permits'[s][i]["Permit ID"] = df_permits[s][i]["Permit ID"]

\* C7: no table, a session's or the persisted one, holds two records with the
\* same Permit ID; the id of a new permit is the id of no record already in
\* the submitting session's table; and a record of a session's table keeps
\* its Permit ID.
C7_PermitIdsUnique == [][C7_Step /\ C7_Unique']_vars

\* A session submits into a table that already holds a permit of another
\* session.
C7_Witness ==
    /\ shown.message = MsgSubmitted
    /\ shown.session = "s2"
    /\ username["s1"] = "user"
    /\ Len(df_permits["s2"]) = 2
    /\ df_permits["s2"][1] \in Range(df_permits["s1"])
    /\ file.rows = df_permits["s2"]

\* ---------------------------------------------------------------- C8
TextsPresent(form) ==
    /\ form.requester # ""
    /\ form.location # ""
    /\ form.work_type # ""
    /\ form.description # ""

\* The required items as the claim lists them.
C8_RequiredAsClaimed(form) ==
    /\ TextsPresent(form)
    /\ (form.selected_precautions # <<>> \/ form.other_text # "")

\* The original claim: a submission with the four texts and a precaution
\* selected, or the other elaboration populated, is accepted.
C8_AcceptedAsClaimed ==
    (WasSubmit(shown) /\ C8_RequiredAsClaimed(shown.form))
        => shown.message = MsgSubmitted

\* The required items as the validation has them.
C8_Required(form) ==
    /\ TextsPresent(form)
    /\ form.selected_precautions # <<>>
    /\ (OtherOption \in Range(form.selected_precautions) => form.other_text # "")

\* C8 (amended): a submission is accepted whenever requester, location, work
\* type and description are not empty, at least one precaution is selected
\* and, when "Other" is among the selected ones, its elaboration is
\* populated; it is rejected only when one of these is missing.
C8_AcceptedWhenComplete ==
    (WasSubmit(shown) /\ C8_Required(shown.form))
        => shown.message = MsgSubmitted

C8_Witness ==
    /\ shown.message = MsgSubmitted
    /\ shown.form.selected_precautions = <<OtherOption>>
    /\ shown.form.other_text = "gloves"
    /\ \E row \in Range(file.rows) :
          row["Permit ID"] = shown.id /\ row["Precautions"] = "Other: gloves"

\* ---------------------------------------------------------------- C9
\* A submission the claim calls invalid: a text is missing or no precaution
\* is given.
C9_Invalid(form) ==
    \/ ~TextsPresent(form)
    \/ form.selected_precautions = <<>>

C9_Step ==
    /\ (WasSubmit(shown') /\ C9_Invalid(shown'.form))
          => shown'.message \in SubmitWarnings
    /\ shown'.message \in SubmitWarnings
          => /\ UNCHANGED <<df_permits, file>>
             /\ Len(df_permits'[shown'.session]) = Len(df_permits[shown'.session])

C9_Complete ==
    \A row \in AllRows :
        /\ row["Requester"] # ""
        /\ row["Location"] # ""
        /\ row["Work Type"] # ""
        /\ row["Description"] # ""
        /\ row["Precautions"] # ""

\* C9: a submission that fails the validation appends no record and writes
\* nothing (the session's table, its length and the persisted table stay as
\* they were), so every record has a Requester, a Location, a Work Type, a
\* Description and Precautions that are not empty.
C9_InvalidSubmitChangesNothing == [][C9_Step /\ C9_Complete']_vars

C9_Witness ==
    /\ shown.message = "Requester Name is required."
    /\ Len(df_permits[shown.session]) = 1
    /\ file.rows = df_permits[shown.session]

\* --------------------------------------------------------------- C10
C10_Factors == {LIKELIHOOD_OPTIONS[i] : i \in DOMAIN LIKELIHOOD_OPTIONS}

C10_Scored ==
    \A row \in AllRows :
        /\ row["Likelihood"] \in C10_Factors
        /\ row["Severity"] \in C10_Factors
        /\ int(row["Likelihood"]) \in 1..5
        /\ int(row["Severity"]) \in 1..5
        /\ row["Risk Assessment"] =
              str(int(row["Likelihood"]) * int(row["Severity"]))

C10_Step ==
    /\ shown'.message = MsgSubmitted
          => LET row == RowOf(df_permits'[shown'.session], shown'.id)
             IN  /\ row["Likelihood"] = likelihood_new[shown'.session]
                 /\ row["Severity"] = severity_new[shown'.session]
    /\ \A s \in Sessions :
         (logged_in[s] /\ logged_in'[s])
            => \A i \in DOMAIN df_permits[s] :
                  /\ df_permits'[s][i]["Likelihood"] = df_permits[s][i]["Likelihood"]
                  /\ df_permits'[s][i]["Severity"] = df_permits[s][i]["Severity"]
                  /\ df_permits'[s][i]["Risk Assessment"] =
                        df_permits[s][i]["Risk Assessment"]

\* C10: every record has a Likelihood and a Severity in 1..5 and a Risk
\* Assessment equal to their product; the stored factors are the ones
\* selected when the permit was submitted, and a decision changes none of
\* the three fields.
C10_RiskIsProduct == [][C10_Step /\ C10_Scored']_vars

C10_Witness ==
    /\ shown.message = MsgApproved
    /\ \E row \in Range(file.rows) :
          /\ row["Permit ID"] = shown.id
          /\ row["Status"] = "Approved"
          /\ row["Likelihood"] = "5"
          /\ row["Severity"] = "3"
          /\ row["Risk Assessment"] = "15"

\* --------------------------------------------------------------- C11
\* The number a plain decimal text spells, as the claim reads its inputs.
C11_InRange(x) == \E n \in 1..5 : ToString(n) = x
C11_Number(x) == CHOOSE n \in 1..5 : ToString(n) = x
\* A text that spells a whole number outside 1..5, or no number at all.
C11_OutOrNonNumeric(x) == x \in {"-1", "0", "6", "", "abc"}

\* C11: calculate_risk_assessment_details returns a value for every pair of
\* inputs; for whole numbers l, s in 1..5 the score is l*s, the same with
\* the two swapped, and lies in 1..25; when l or s is outside 1..5 or is not
\* a number the score is 0 and the level is N/A.
C11_RiskEngine ==
    risk_view.call = "calculate_risk_assessment_details"
       => LET l == risk_view.likelihood
              s == risk_view.severity
              result == risk_view.result
          IN  /\ Len(result) = 3
              /\ result[1] \in 0..25
              /\ (C11_InRange(l) /\ C11_InRange(s))
                    => /\ result[1] = C11_Number(l) * C11_Number(s)
                       /\ result[1] = calculate_risk_assessment_details(s, l)[1]
                       /\ result[1] \in 1..25
              /\ (C11_OutOrNonNumeric(l) \/ C11_OutOrNonNumeric(s))
                    => /\ result[1] = 0
                       /\ result[2] = "N/A"

\* The engine was given a number in range and a text that is no number.
C11_Witness ==
    /\ risk_view.call = "calculate_risk_assessment_details"
    /\ risk_view.likelihood = "5"
    /\ risk_view.severity = "abc"
    /\ risk_view.result = <<0, "N/A", "gray">>

\* --------------------------------------------------------------- C12
\* The level of a score and the color of a level, as the claim gives them.
C12_Level(score) ==
    IF score \in 1..4 THEN "Low"
    ELSE IF score \in 5..12 THEN "Medium"
    ELSE IF score \in 13..25 THEN "High"
    ELSE IF score = 0 THEN "N/A"
    ELSE "Undefined"

C12_Color(level) ==
    IF level = "Low" THEN "#28a745"
    ELSE IF level = "Medium" THEN "#ffc107"
    ELSE IF level = "High" THEN "#dc3545"
    ELSE "gray"

\* C12: the level of a score is Low for 1..4, Medium for 5..12, High for
\* 13..25, N/A for 0 and Undefined for any other whole number; the color is
\* fixed by the level (green, amber, red, otherwise gray); and a score has
\* one level and one color.
C12_LevelAndColor ==
    risk_view.call = "get_risk_level_and_color"
       => /\ Len(risk_view.result) = 2
          /\ risk_view.result[1] = C12_Level(risk_view.score)
          /\ risk_view.result[2] = C12_Color(risk_view.result[1])

\* The level was asked for a score on a boundary.
C12_Witness ==
    /\ risk_view.call = "get_risk_level_and_color"
    /\ risk_view.score = 5
    /\ risk_view.result = <<"Medium", "#ffc107">>

\* --------------------------------------------------------------- C13
\* The last run reported the success of a submission or of a decision.
ReportedSuccess(sh) == sh.message \in {MsgSubmitted, MsgApproved, MsgRejected}

\* C13: whenever a submit, an approve or a reject reports success, the whole
\* table has been written to storage: the persisted table is the acting
\* session's table, record for record and field for field.
C13_SuccessMeansSaved ==
    ReportedSuccess(shown)
       => /\ file.exists
          /\ file.rows = df_permits[shown.session]

\* --------------------------------------------------------------- C14
\* C14: with one session as the only writer, whatever the outcome of a table
\* load, a record that is in the persisted table stays in the persisted
\* table, under the same Permit ID.
C14_NeverDeletes == [][IdsOf(file.rows) \subseteq IdsOf(file'.rows)]_vars

\* --------------------------------------------------------------- C15
C15_Step ==
    ReportedSuccess(shown')
       => /\ file'.rows = df_permits'[shown'.session]
          /\ \A s \in Sessions \ {shown'.session} :
                df_permits'[s] = df_permits[s]

\* C15: with two sessions on one file and no locking, a save replaces the
\* whole persisted table by the saving session's table and refreshes no
\* other session's table (last write wins), so an update can be lost: a
\* record that one session created and saved is absent from the persisted
\* table after the other session's later save.
C15_LastWriteWins == [][C15_Step]_vars

\* The permit that s1 submitted and saved is gone from the file after the
\* save of s2.
C15_Witness ==
    /\ ReportedSuccess(shown)
    /\ shown.session = "s2"
    /\ file.rows = df_permits["s2"]
    /\ \E row \in Range(df_permits["s1"]) :
          /\ row["Requester"] = "Ahmed"
          /\ row["Permit ID"] \notin IdsOf(file.rows)
          /\ row["Permit ID"] \notin IdsOf(df_permits["s2"])

\* --------------------------------------------------------------- C16
\* No form can be submitted and no permit decided in this session.
C16_CannotSubmit(s) ==
    \A form \in FormInputs : ~ENABLED Submit(s, form, TRUE)

C16_CannotDecide(s) ==
    \A id \in PermitIds, notes \in NotesInputs :
        /\ ~ENABLED Approve(s, id, notes, TRUE)
        /\ ~ENABLED Reject(s, id, notes, TRUE)

C16_Gate ==
    \A s \in Sessions :
        /\ ~logged_in[s] => (C16_CannotSubmit(s) /\ C16_CannotDecide(s))
        /\ (logged_in[s] /\ username[s] = "user")
              => (app_mode[s] = ModeIssue /\ C16_CannotDecide(s))
        /\ logged_in[s] => username[s] \in {"user", "supervisor"}

\* A submission comes from a session that is logged in, a decision from a
\* session logged in as supervisor, and a Status changes in a session's
\* table only when that session is a supervisor's.
C16_Step ==
    /\ WasSubmit(shown') => logged_in[shown'.session]
    /\ WasDecisionAttempt(shown')
          => (logged_in[shown'.session] /\ username[shown'.session] = "supervisor")
    /\ \A s \in Sessions :
         (/\ logged_in[s] /\ logged_in'[s]
          /\ \E i \in DOMAIN df_permits[s] :
                df_permits'[s][i]["Status"] # df_permits[s][i]["Status"])
            => username[s] = "supervisor"

\* C16: no submit, approve or reject happens in a session that is not logged
\* in; a session logged in as "user" can only submit; approve and reject
\* happen only in a session logged in as "supervisor", so every Approved or
\* Rejected record was decided by a supervisor session.
C16_GatedByLoginAndRole == []C16_Gate /\ [][C16_Step]_vars

\* A user has submitted a permit into a table that holds a permit a
\* supervisor decided: there is a Pending permit and the user cannot decide.
C16_Witness ==
    /\ shown.message = MsgSubmitted
    /\ logged_in["s1"] /\ username["s1"] = "user"
    /\ Len(df_permits["s1"]) = 2
    /\ df_permits["s1"][1]["Status"] \in {"Approved", "Rejected"}
    /\ df_permits["s1"][2]["Status"] = "Pending"

\* --------------------------------------------------------------- C17
\* The columns a decision writes.
C17_DecisionColumns == {"Status", "Supervisor Notes", "Supervisor Action Date"}

\* Between two tables, only the decision columns of the record with id p
\* differ: same length, same order, every other record and field the same.
C17_OnlyDecided(old, new, p) ==
    /\ Len(new) = Len(old)
    /\ \A i \in DOMAIN old :
          /\ new[i]["Permit ID"] = old[i]["Permit ID"]
          /\ old[i]["Permit ID"] # p => new[i] = old[i]
          /\ \A c \in Columns \ C17_DecisionColumns : new[i][c] = old[i][c]
          /\ DOMAIN new[i] = Columns

C17_Step ==
    WasDecision(shown')
       => /\ C17_OnlyDecided(df_permits[shown'.session],
                             df_permits'[shown'.session], shown'.id)
          /\ C17_OnlyDecided(file.rows, file'.rows, shown'.id)
          /\ RowOf(df_permits'[shown'.session], shown'.id)["Status"] # "Pending"

\* C17: a successful approve or reject of the permit with id p changes only
\* the Status, the Supervisor Notes and the Supervisor Action Date of the
\* record with id p; its other ten fields, every other record, the number of
\* records and their order stay as they were, in the session's table and,
\* with one session as the only writer, in the persisted table.
C17_DecisionFrame == [][C17_Step]_vars

\* A decision was made on one of two permits.
C17_Witness ==
    /\ WasDecision(shown)
    /\ Len(df_permits[shown.session]) = 2
    /\ \E i \in 1..2 :
          /\ df_permits[shown.session][i]["Permit ID"] # shown.id
          /\ df_permits[shown.session][i]["Status"] = "Pending"
    /\ file.rows = df_permits[shown.session]

\* --------------------------------------------------------------- C18
\* The ids of the Pending records of a table, in table order.
RECURSIVE C18_PendingIds(_)
C18_PendingIds(df) ==
    IF df = <<>> THEN <<>>
    ELSE (IF Head(df)["Status"] = "Pending"
          THEN <<Head(df)["Permit ID"]>> ELSE <<>>)
         \o C18_PendingIds(Tail(df))

C18_CanDecide(s, id) ==
    \E notes \in NotesInputs :
        \/ ENABLED Approve(s, id, notes, TRUE)
        \/ ENABLED Reject(s, id, notes, TRUE)

\* C18: the permits offered for review are exactly the Pending records of
\* the session's table, in table order; when the table is empty or holds no
\* Pending record the page shows "No pending permits to review." and offers
\* no decision.
C18_OffersPending ==
    \A s \in Sessions :
        (logged_in[s] /\ app_mode[s] = ModeReview)
           => LET page == review_page(df_permits[s])
                  pending == C18_PendingIds(df_permits[s])
              IN  /\ page.options = pending
                  /\ \A id \in PermitIds :
                        C18_CanDecide(s, id) <=> id \in Range(pending)
                  /\ (pending = <<>>) <=> (page.info = MsgNoPending)
                  /\ pending # <<>> => page.info = ""

\* The review page offers two pending permits.
C18_Witness ==
    /\ logged_in["s1"] /\ app_mode["s1"] = ModeReview
    /\ Len(df_permits["s1"]) = 2
    /\ Len(review_page(df_permits["s1"]).options) = 2

\* --------------------------------------------------------------- C19
\* The table a login loaded from a file: no record when the file is missing,
\* holds no record or could not be read; otherwise every record of the file,
\* in order, with the 13 expected columns, the values of the file in the
\* columns the file has and the empty text in the others.
C19_Loaded(f, failed, df) ==
    IF ~f.exists \/ failed \/ f.rows = <<>>
    THEN df = <<>>
    ELSE /\ Len(df) = Len(f.rows)
         /\ \A i \in DOMAIN df :
               /\ DOMAIN df[i] = Columns
               /\ Cardinality(DOMAIN df[i]) = 13
               /\ \A c \in Columns :
                     df[i][c] = IF c \in DOMAIN f.rows[i] THEN f.rows[i][c]
                                ELSE ""

C19_Step ==
    \A s \in Sessions :
        (~logged_in[s] /\ logged_in'[s])
           => /\ C19_Loaded(file, shown'.message = MsgLoadError, df_permits'[s])
              /\ file' = file

\* Whatever the file, a login with valid credentials can be made.
C19_CanLoad ==
    \A s \in Sessions :
        ~logged_in[s]
           => \A io_ok \in BOOLEAN : ENABLED Login(s, "user", "123456", io_ok)

\* C19: loading never fails: a missing file, a file without records and a
\* file that cannot be read give a table of zero records; a file that lacks
\* some of the expected columns loads with every record kept, the missing
\* columns filled with the empty text and the values of the existing columns
\* unchanged.
C19_LoadNeverFails == []C19_CanLoad /\ [][C19_Step]_vars

\* A file of two records without the supervisor columns has been loaded.
C19_Witness ==
    /\ logged_in["s1"]
    /\ Len(file.rows) = 2
    /\ "Supervisor Notes" \notin DOMAIN file.rows[1]
    /\ "Likelihood" \in DOMAIN file.rows[1]
    /\ Len(df_permits["s1"]) = 2
    /\ df_permits["s1"][1]["Supervisor Notes"] = ""
    /\ df_permits["s1"][1]["Status"] = "Approved"
    /\ shown.message = ""

\* --------------------------------------------------------------- C20
\* Session s logs in, logs out, on this step.
C20_LogsIn(s) == ~logged_in[s] /\ logged_in'[s]
C20_LogsOut(s) == logged_in[s] /\ ~logged_in'[s]

\* Between login and logout the table of a session changes only through a
\* submit, an approve or a reject of that session that reports success, and
\* the logout discards it.
C20_Lifecycle(s) ==
    /\ C20_LogsOut(s) => df_permits'[s] = EmptyTable
    /\ (logged_in[s] /\ logged_in'[s] /\ df_permits'[s] # df_permits[s])
          => (ReportedSuccess(shown') /\ shown'.session = s)
    /\ (~logged_in[s] /\ ~logged_in'[s]) => df_permits'[s] = df_permits[s]

\* The original claim: the table a login loads is the persisted table.
C20_EqualsPersistedAfterLogin ==
    [][\A s \in Sessions :
          /\ C20_Lifecycle(s)
          /\ C20_LogsIn(s) => df_permits'[s] = file.rows]_vars

\* C20 (amended): the table of a session is loaded from storage once per
\* login and discarded at logout; in between it changes only through that
\* session's own submit, approve and reject; after a login it holds the
\* records of the persisted table of that moment, their missing columns
\* filled with the empty text, when the file could be read, and no record
\* when the file is missing or could not be read.
C20_LoadedOncePerLogin ==
    [][\A s \in Sessions :
          /\ C20_Lifecycle(s)
          /\ C20_LogsIn(s)
                => C19_Loaded(file, shown'.message = MsgLoadError,
                              df_permits'[s])]_vars

\* After a logout, the session has logged in again and holds the permit it
\* submitted before, as the file has it.
C20_Witness ==
    /\ logged_in["s1"]
    /\ shown = Show("s1", "", "", EmptyForm)
    /\ df_permits["s1"] = file.rows
    /\ \E row \in Range(df_permits["s1"]) : row["Requester"] = "Ahmed"

\* --------------------------------------------------------------- C21
\* The tick at which the record with this Permit ID was created.
C21_CreatedAt ==
    [permit_id \in PermitIds |->
        CHOOSE t \in LegacyTicks \cup 0..MaxClock :
            generate_permit_id(t) = permit_id]

\* The records of a table stand in the order of their creation.
C21_InCreationOrder(table) ==
    \A i, j \in DOMAIN table :
        i < j => C21_CreatedAt[table[i]["Permit ID"]]
                    < C21_CreatedAt[table[j]["Permit ID"]]

\* The new table is the old one with one new Pending, undecided record with
\* Permit ID p after its last record.
C21_Appended(old, new, p) ==
    /\ Len(new) = Len(old) + 1
    /\ SubSeq(new, 1, Len(old)) = old
    /\ new[Len(new)]["Permit ID"] = p
    /\ new[Len(new)]["Status"] = "Pending"
    /\ new[Len(new)]["Supervisor Notes"] = ""
    /\ new[Len(new)]["Supervisor Action Date"] = ""
    /\ p \notin IdsOf(old)

C21_Step ==
    /\ shown'.message = MsgSubmitted
          => /\ C21_Appended(df_permits[shown'.session],
                             df_permits'[shown'.session], shown'.id)
             /\ \A s \in Sessions \ {shown'.session} :
                   df_permits'[s] = df_permits[s]
    /\ \A s \in Sessions :
          Len(df_permits'[s]) > Len(df_permits[s]) /\ logged_in[s]
             => shown' = Show(s, MsgSubmitted, shown'.id, shown'.form)

\* C21: a successful submission puts exactly one record after the last
\* record of the submitting session's table, with Status Pending, empty
\* Supervisor Notes and empty Supervisor Action Date; the table grows by one
\* record, the records it held keep every field value and their order, no
\* other run of a logged-in session makes its table longer, and so the
\* records of every table, a session's or the persisted one, stand in the
\* order of their creation.
C21_SubmitAppends ==
    [][C21_Step /\ \A table \in Tables' : C21_InCreationOrder(table)]_vars

\* A permit was submitted into a table whose first record had already been
\* approved.
C21_Witness ==
    /\ shown.message = MsgSubmitted
    /\ Len(df_permits[shown.session]) = 2
    /\ df_permits[shown.session][1]["Status"] = "Approved"
    /\ df_permits[shown.session][1]["Supervisor Action Date"] # ""
    /\ df_permits[shown.session][2]["Permit ID"] = shown.id
    /\ df_permits[shown.session][2]["Status"] = "Pending"

====
